---- MODULE Spec2Model ----
(***************************************************************************)
(* State-machine model of src/main.py (telegram-youtube-preview).          *)
(*                                                                         *)
(* Strings that the program formats, splits or parses are sequences of     *)
(* one-character strings, so that str(), split(), int() and float() are    *)
(* computed character by character.  Times of a request are kept in tenths *)
(* of a second: a number is [t, e, ty] where t is the value in tenths, e   *)
(* in {-1,0,1} is the sign of the binary rounding error a float sum may    *)
(* carry before round(x, 1), and ty is the Python type ("int"/"float").    *)
(***************************************************************************)
EXTENDS Integers, Sequences, FiniteSets, TLC

(***************************************************************************)
(* Bounds of the model.                                                    *)
(***************************************************************************)
\* largest request time explored, in tenths of a second
MaxTenths == 11

\* result messages sent in one behaviour
MaxSent == 3

\* last value of the cache's timer
MaxTime == 3

\* TTLCache(maxsize=1000, ttl=86400), scaled: capacity in items, and the
\* time-to-live in ticks of the timer
maxsize == 2

ttl == 2

(***************************************************************************)
(* Character strings.                                                      *)
(***************************************************************************)
Digits == <<"0", "1", "2", "3", "4", "5", "6", "7", "8", "9">>

IsDigit(c) == \E d \in 1..10 : Digits[d] = c

DigitVal(c) == (CHOOSE d \in 1..10 : Digits[d] = c) - 1

Abs(n) == IF n < 0 THEN -n ELSE n

RECURSIVE NatStr(_)
NatStr(n) ==
    IF n < 10 THEN <<Digits[n + 1]>>
    ELSE NatStr(n \div 10) \o <<Digits[(n % 10) + 1]>>

\* str(n) of a Python int
str_int(n) == IF n < 0 THEN <<"-">> \o NatStr(-n) ELSE NatStr(n)

\* str(x) of a Python float on the 0.1 grid (t tenths): repr gives the
\* integer part, a point and one digit ("10.0", "0.5", "-0.5")
str_float(t) ==
    (IF t < 0 THEN <<"-">> ELSE <<>>)
        \o NatStr(Abs(t) \div 10) \o <<".", Digits[(Abs(t) % 10) + 1]>>

\* round(x, 1): an int is returned unchanged (still an int); a float goes to
\* the nearest multiple of 0.1, which discards the binary error of a sum
round1(x) == IF x.ty = "int" THEN x ELSE [t |-> x.t, e |-> 0, ty |-> "float"]

\* the text an f-string writes for {round(x, 1)}
str_num(x) == IF x.ty = "int" THEN str_int(x.t \div 10) ELSE str_float(x.t)

RECURSIVE SplitFrom(_, _, _, _)
SplitFrom(s, i, cur, acc) ==
    IF i > Len(s)
    THEN (IF cur = <<>> THEN acc ELSE Append(acc, cur))
    ELSE IF s[i] = " "
         THEN SplitFrom(s, i + 1, <<>>, IF cur = <<>> THEN acc ELSE Append(acc, cur))
         ELSE SplitFrom(s, i + 1, Append(cur, s[i]), acc)

\* str.split(): the maximal runs of non-whitespace characters
split(s) == SplitFrom(s, 1, <<>>, <<>>)

AllDigits(s) == \A i \in 1..Len(s) : IsDigit(s[i])

RECURSIVE NatVal(_)
NatVal(s) ==
    IF Len(s) = 0 THEN 0
    ELSE 10 * NatVal(SubSeq(s, 1, Len(s) - 1)) + DigitVal(s[Len(s)])

Unsigned(s) == IF Len(s) > 0 /\ s[1] \in {"-", "+"} THEN Tail(s) ELSE s

SignOf(s) == IF Len(s) > 0 /\ s[1] = "-" THEN -1 ELSE 1

\* int(s): ok is FALSE where Python raises ValueError
py_int(s) ==
    IF Len(Unsigned(s)) > 0 /\ AllDigits(Unsigned(s))
    THEN [ok |-> TRUE, v |-> SignOf(s) * NatVal(Unsigned(s))]
    ELSE [ok |-> FALSE, v |-> 0]

DotAt(s) ==
    IF \E i \in 1..Len(s) : s[i] = "."
    THEN CHOOSE i \in 1..Len(s) : s[i] = "." /\ \A j \in 1..(i - 1) : s[j] # "."
    ELSE 0

\* float(s) for decimal tokens with at most one fractional digit (the
\* tokens make_inline_keyboard writes: "10", "10.0", "0.5", "-0.5");
\* ok is FALSE where Python raises ValueError
py_float(s) ==
    LET u  == Unsigned(s)
        d  == DotAt(u)
        ip == IF d = 0 THEN u ELSE SubSeq(u, 1, d - 1)
        fp == IF d = 0 THEN <<>> ELSE SubSeq(u, d + 1, Len(u))
    IN  IF Len(ip) + Len(fp) > 0 /\ AllDigits(ip) /\ AllDigits(fp) /\ Len(fp) <= 1
        THEN [ok |-> TRUE,
              x  |-> [t  |-> SignOf(s) * (10 * NatVal(ip)
                                + (IF fp = <<>> THEN 0 ELSE DigitVal(fp[1]))),
                      e  |-> 0,
                      ty |-> "float"]]
        ELSE [ok |-> FALSE, x |-> [t |-> 0, e |-> 0, ty |-> "float"]]

\* a comparison that also tells int 0 from float 0.0
NumEq_typed(a, b) == a.t = b.t /\ a.e = b.e /\ a.ty = b.ty

\* Python's == and < on numbers (an int equals the float of the same value)
NumEq(a, b) == a.t = b.t /\ a.e = b.e

NumLess(a, b) == a.t < b.t \/ (a.t = b.t /\ a.e < b.e)

\* max(a, b) and min(a, b): the first argument unless the second is
\* strictly greater (smaller)
py_max(a, b) == IF NumLess(a, b) THEN b ELSE a

py_min(a, b) == IF NumLess(b, a) THEN b ELSE a

IntNum(n) == [t |-> 10 * n, e |-> 0, ty |-> "int"]

FloatNum(t) == [t |-> t, e |-> 0, ty |-> "float"]

(***************************************************************************)
(* Tokens of the callback payload.                                         *)
(***************************************************************************)
tok_start == <<"s", "t", "a", "r", "t">>

tok_end == <<"e", "n", "d">>

tok_int == <<"i", "n", "t">>

tok_frac == <<"f", "r", "a", "c">>

tok_sw_m == <<"s", "w", "_", "m">>

tok_sw_i == <<"s", "w", "_", "i">>

tok_preview == <<"p", "r", "e", "v", "i", "e", "w">>

tok_video == <<"v", "i", "d", "e", "o">>

tok_audio == <<"a", "u", "d", "i", "o">>

\* the delta rows of the keyboard in 'int' mode: '1' '2' '5' '10' '30' and
\* their negatives
IntDeltas ==
    { <<"1">>, <<"2">>, <<"5">>, <<"1", "0">>, <<"3", "0">>,
      <<"-", "1">>, <<"-", "2">>, <<"-", "5">>, <<"-", "1", "0">>, <<"-", "3", "0">> }

\* the delta rows in 'frac' mode: '0.1' '0.2' '0.5' and their negatives
FracDeltas ==
    { <<"0", ".", "1">>, <<"0", ".", "2">>, <<"0", ".", "5">>,
      <<"-", "0", ".", "1">>, <<"-", "0", ".", "2">>, <<"-", "0", ".", "5">> }

RenderActions == {tok_preview, tok_video, tok_audio}

ToggleActions == {tok_sw_m, tok_sw_i}

\* the actions of the buttons make_inline_keyboard lays out (captions and
\* rows left out)
keyboard(int_frac_mode) ==
    ToggleActions
        \cup (IF int_frac_mode = tok_int THEN IntDeltas
              ELSE IF int_frac_mode = tok_frac THEN FracDeltas ELSE {})
        \cup RenderActions

Join(a, b) == a \o <<" ">> \o b

\* the payload with start and end in each other's position
callback_data_swapped(user_id, request, start_end_mode, int_frac_mode, action) ==
    Join(str_int(user_id),
    Join(request.youtube_id,
    Join(str_num(round1(request.end)),
    Join(str_num(round1(request.start)),
    Join(start_end_mode,
    Join(int_frac_mode, action))))))

\* the callback_data f-string of one button
callback_data(user_id, request, start_end_mode, int_frac_mode, action) ==
    Join(str_int(user_id),
    Join(request.youtube_id,
    Join(str_num(round1(request.start)),
    Join(str_num(round1(request.end)),
    Join(start_end_mode,
    Join(int_frac_mode, action))))))

\* the reply markup make_inline_keyboard returns: its arguments, from which
\* every button's callback_data is written
make_inline_keyboard(user_id, request, start_end_mode, int_frac_mode) ==
    [kind |-> "controls", user_id |-> user_id, request |-> request,
     start_end_mode |-> start_end_mode, int_frac_mode |-> int_frac_mode]

\* the callback_data strings a control keyboard carries
buttons(markup) ==
    { callback_data(markup.user_id, markup.request, markup.start_end_mode,
                    markup.int_frac_mode, a) : a \in keyboard(markup.int_frac_mode) }

\* the one-button link keyboards of the handler ('Загружаем...' and "Error")
url_keyboard(text) == [kind |-> "url", text |-> text]

no_keyboard == [kind |-> "none"]

Request(youtube_id, start, end) == [youtube_id |-> youtube_id, start |-> start, end |-> end]

\* captions: request_to_query(request), request_to_start_timestamp_url(request)
\* and the latter followed by "\n\n" + str(e)
caption_query(request) == [fmt |-> "query", request |-> request, err |-> "none"]

caption_url(request) == [fmt |-> "url", request |-> request, err |-> "none"]

caption_error(request, e) == [fmt |-> "url_error", request |-> request, err |-> e]

(***************************************************************************)
(* Inputs of the model.                                                    *)
(***************************************************************************)
Users == {7, 4242}

YoutubeIds == { <<"d", "Q", "w", "4">>, <<"-", "x", "_", "9">> }

\* the inline queries explored: the asking user and the request the parser
\* made of the query, valid (0 <= start <= end), with int or float times
InlineQueries ==
    { [from_user |-> 7,
       request   |-> Request(<<"d", "Q", "w", "4">>, IntNum(0), IntNum(1))],
      [from_user |-> 4242,
       request   |-> Request(<<"-", "x", "_", "9">>, FloatNum(5), FloatNum(11))] }

(***************************************************************************)
(* State.                                                                  *)
(***************************************************************************)
VARIABLES
    surface,        \* the inline message: its media, caption and reply markup
    cb,             \* the frame of inline_kb_answer_callback_handler and what it did
    iq,             \* the frame of inline_query
    run,            \* the download_file call in progress or last finished
    files,          \* files written by that call that still exist
    loop,           \* the handler the event loop is executing ("none": free)
    handlers,       \* the frames of handle_message / handle_message_edit
    last_messages,  \* the TTLCache
    now,            \* the cache's timer
    recent,         \* keys in the order they were last stored or found, latest last
    chat            \* result messages sent, per originating message

surfVars == <<surface, cb, iq>>

dlVars == <<run, files>>

loopVars == <<loop, handlers, last_messages, now, recent, chat, iq>>

vars == <<surface, cb, iq, run, files, loop, handlers, last_messages, now, recent, chat>>

(***************************************************************************)
(* download_file and download_clip, one step per call that can fail.       *)
(***************************************************************************)
FORMATS_BY_TYPE ==
    [type_ \in RenderActions |->
        IF type_ = tok_preview THEN <<"best[height<720]">>
        ELSE IF type_ = tok_video THEN <<"best", "best[height<720]">>
        ELSE <<"bestaudio/best">>]

\* the exceptions download_file's except clause names
FormatUnusable == {"FFRuntimeError", "DownloadError"}

\* subclasses of yt_dlp.utils.YoutubeDLError
YoutubeDLErrors == {"DownloadError", "YoutubeDLError"}

run_idle ==
    [state |-> "idle", owner |-> "none", type_ |-> tok_video, i |-> 1,
     stage |-> "none", tried |-> <<>>, exc |-> "none"]

Attempt(r, stage, outcome) ==
    [format |-> FORMATS_BY_TYPE[r.type_][r.i], stage |-> stage, outcome |-> outcome]

\* an exception e raised inside the try of candidate r.i: the except clause
\* goes on to the next candidate or re-raises; any other exception leaves
\* download_file at once
\* an except clause that goes on to the next format after any exception
download_file_except_any(r, stage, e) ==
    IF r.i < Len(FORMATS_BY_TYPE[r.type_])
    THEN [r EXCEPT !.i = r.i + 1, !.stage = "get_file_url",
                   !.tried = Append(r.tried, Attempt(r, stage, e))]
    ELSE [r EXCEPT !.state = "raised", !.exc = e, !.stage = "none",
                   !.tried = Append(r.tried, Attempt(r, stage, e))]

download_file_except(r, stage, e) ==
    IF e \in FormatUnusable /\ r.i < Len(FORMATS_BY_TYPE[r.type_])
    THEN [r EXCEPT !.i = r.i + 1, !.stage = "get_file_url",
                   !.tried = Append(r.tried, Attempt(r, stage, e))]
    ELSE [r EXCEPT !.state = "raised", !.exc = e, !.stage = "none",
                   !.tried = Append(r.tried, Attempt(r, stage, e))]

\* the call download_file(request, type_) made by handler h: the loop starts
\* at the first candidate
download_file(h, type_) ==
    /\ run' = [state |-> "running", owner |-> h, type_ |-> type_, i |-> 1,
               stage |-> "get_file_url", tried |-> <<>>, exc |-> "none"]
    /\ files' = {}

\* get_file_url: the resolver returns a locator or raises
get_file_url ==
    /\ run.state = "running" /\ run.stage = "get_file_url"
    /\ \E out \in {"ok", "DownloadError", "YoutubeDLError", "Exception"} :
          run' = IF out = "ok" THEN [run EXCEPT !.stage = "extract"]
                 ELSE download_file_except(run, "get_file_url", out)
    /\ UNCHANGED <<files, surfVars, loopVars>>

\* download_clip, first ff.run(): copies [start, end] into the temp file; a
\* failing run may have created the file already
download_clip_extract ==
    /\ run.state = "running" /\ run.stage = "extract"
    /\ \E out \in {"ok", "FFRuntimeError", "Exception"}, partial \in BOOLEAN :
          /\ out = "ok" => partial
          /\ out = "Exception" => ~partial
          /\ files' = IF partial THEN files \cup {<<run.i, "temp">>} ELSE files
          /\ run' = IF out = "ok" THEN [run EXCEPT !.stage = "encode"]
                    ELSE download_file_except(run, "extract", out)
    /\ UNCHANGED <<surfVars, loopVars>>

\* download_clip, second ff.run(): re-encodes the temp file into the out file
download_clip_encode ==
    /\ run.state = "running" /\ run.stage = "encode"
    /\ \E out \in {"ok", "FFRuntimeError", "Exception"}, partial \in BOOLEAN :
          /\ out = "ok" => partial
          /\ out = "Exception" => ~partial
          /\ files' = IF partial THEN files \cup {<<run.i, "out">>} ELSE files
          /\ run' = IF out = "ok" THEN [run EXCEPT !.stage = "read"]
                    ELSE download_file_except(run, "encode", out)
    /\ UNCHANGED <<surfVars, loopVars>>

\* download_clip, the rest: reads the out file into memory, removes both
\* files and returns; open() or read() may raise OSError
download_clip_read ==
    /\ run.state = "running" /\ run.stage = "read"
    /\ \E out \in {"ok", "OSError"} :
          IF out = "ok"
          THEN /\ files' = files \ {<<run.i, "temp">>, <<run.i, "out">>}
               /\ run' = [run EXCEPT !.state = "returned", !.stage = "none",
                                     !.tried = Append(run.tried, Attempt(run, "read", "ok"))]
          ELSE /\ files' = files
               /\ run' = download_file_except(run, "read", out)
    /\ UNCHANGED <<surfVars, loopVars>>

(***************************************************************************)
(* Edits of the inline message.                                            *)
(***************************************************************************)
caption_keep == [fmt |-> "keep", request |-> Request(<<>>, IntNum(0), IntNum(0)), err |-> "none"]

\* bot.edit_message_caption(caption=..., reply_markup=...)
edit_message_caption(caption, markup, ok) ==
    [op |-> "edit_message_caption", ok |-> ok, media |-> "keep",
     caption |-> caption, markup |-> markup]

\* bot.edit_message_reply_markup(reply_markup=...)
edit_message_reply_markup(markup, ok) ==
    [op |-> "edit_message_reply_markup", ok |-> ok, media |-> "keep",
     caption |-> caption_keep, markup |-> markup]

\* bot.edit_message_media(media=InputMedia...(caption=...), reply_markup=...)
edit_message_media(media, caption, markup, ok) ==
    [op |-> "edit_message_media", ok |-> ok, media |-> media,
     caption |-> caption, markup |-> markup]

\* the message after the transport has carried out edit e (ok) or refused it
Edited(surf, e) ==
    IF ~e.ok THEN surf
    ELSE [media   |-> IF e.media = "keep" THEN surf.media ELSE e.media,
          caption |-> IF e.caption.fmt = "keep" THEN surf.caption ELSE e.caption,
          markup  |-> e.markup]

no_surface == [media |-> "none", caption |-> caption_keep, markup |-> no_keyboard]

(***************************************************************************)
(* inline_kb_answer_callback_handler.                                      *)
(***************************************************************************)
cb_idle ==
    [pc |-> "idle", from_user |-> 0, data |-> <<>>, user_id |-> 0,
     request |-> Request(<<>>, IntNum(0), IntNum(0)),
     start_end_mode |-> <<>>, int_frac_mode |-> <<>>, action |-> <<>>,
     answer |-> "none", edits |-> <<>>, runs |-> 0, raised |-> "none",
     before |-> no_surface, pressed |-> <<>>, fault |-> "none"]

\* a handler without the except clause: the exception leaves it
Raised_escaped(frame, e) == [frame EXCEPT !.pc = "escaped", !.raised = e]

\* the except clause of the handler: the exception is logged and the
\* handler returns
Raised(frame, e) == [frame EXCEPT !.pc = "done", !.raised = e]

\* an owner comparison that lets everyone through
NotOwner_never(from_user, user_id) == FALSE

\* callback_query.from_user.id != int(user_id)
NotOwner(from_user, user_id) == from_user # user_id

\* lines 289-297: unpack the split payload, compare the owner, answer the
\* callback, build the request.  answered is whether callback_query.answer
\* went through
callback_entry(frame, answered) ==
    LET f == split(frame.data)
    IN  IF Len(f) # 7 THEN Raised(frame, "ValueError")
        ELSE LET uid == py_int(f[1])
                 st  == py_float(f[3])
                 en  == py_float(f[4])
             IN  IF ~uid.ok THEN Raised(frame, "ValueError")
                 ELSE IF NotOwner(frame.from_user, uid.v)
                 THEN IF answered
                      THEN [frame EXCEPT !.answer = "rejected", !.pc = "done"]
                      ELSE Raised([frame EXCEPT !.answer = "rejected"], "TelegramAPIError")
                 ELSE IF ~answered
                 THEN Raised([frame EXCEPT !.answer = "ok"], "TelegramAPIError")
                 ELSE IF ~st.ok \/ ~en.ok
                 THEN Raised([frame EXCEPT !.answer = "ok"], "ValueError")
                 ELSE [frame EXCEPT !.answer = "ok", !.pc = "answered",
                                    !.user_id = uid.v,
                                    !.request = Request(f[2], st.x, en.x),
                                    !.start_end_mode = f[5],
                                    !.int_frac_mode = f[6],
                                    !.action = f[7]]

\* the START branch without min(request.start, request.end)
adjust_no_min(request, start_end_mode, delta, err) ==
    IF start_end_mode = tok_end
    THEN LET sum == [t |-> request.end.t + delta.t, e |-> err, ty |-> "float"]
         IN  [request EXCEPT !.end = round1(py_max(request.start, sum))]
    ELSE IF start_end_mode = tok_start
    THEN LET sum == [t |-> request.start.t + delta.t, e |-> err, ty |-> "float"]
         IN  [request EXCEPT !.start = round1(py_max(sum, IntNum(0)))]
    ELSE request

\* lines 379-389: the delta applied to the bound in focus, clamped and
\* rounded; err is the binary rounding error of the float sum
adjust(request, start_end_mode, delta, err) ==
    IF start_end_mode = tok_end
    THEN LET sum == [t |-> request.end.t + delta.t, e |-> err, ty |-> "float"]
         IN  [request EXCEPT !.end = round1(py_max(request.start, sum))]
    ELSE IF start_end_mode = tok_start
    THEN LET sum == [t |-> request.start.t + delta.t, e |-> err, ty |-> "float"]
         IN  [request EXCEPT
                 !.start = round1(py_min(py_max(sum, IntNum(0)), request.end))]
    ELSE request

\* the model follows the range up to MaxTenths: a press that would move the
\* end past it is not explored
InBounds(markup, action) ==
    \/ ~py_float(action).ok
    \/ markup.start_end_mode # tok_end
    \/ markup.request.end.t + py_float(action).x.t <= MaxTenths

\* action tokens no button of the keyboard carries
ForeignActions ==
    { <<"0", ".", "3">>, <<"-", "3">>, <<"c", "l", "o", "s", "e">> }

RECURSIVE JoinFields(_)
JoinFields(f) ==
    IF Len(f) = 0 THEN <<>>
    ELSE IF Len(f) = 1 THEN f[1]
    ELSE Join(f[1], JoinFields(Tail(f)))

\* the actions a payload with a fault is made from: a render trigger, a
\* toggle and a number
FaultyPresses == {tok_video, tok_sw_m, <<"-", "3">>}

\* what a callback query may carry in place of a button's payload
Faults == {"none", "fewer", "more", "owner", "start", "end"}

\* callback_query.data as it arrives: the payload of a button, or that
\* payload with a field missing, a field too many, or a field that is not
\* a number where one is expected
Corrupt(data, fault) ==
    LET f == split(data)
    IN  CASE fault = "none"  -> data
          [] fault = "fewer" -> JoinFields(SubSeq(f, 1, 6))
          [] fault = "more"  -> Join(data, <<"x">>)
          [] fault = "owner" -> JoinFields([f EXCEPT ![1] = <<"7", "x">>])
          [] fault = "start" -> JoinFields([f EXCEPT ![3] = <<"1", ".", "2", ".", "3">>])
          [] fault = "end"   -> JoinFields([f EXCEPT ![4] = <<"t", "e", "n">>])

\* a callback query arrives: user u pressed a button of the control
\* keyboard, or sent a payload of its own making; the handler runs to its
\* first await
inline_kb_answer_callback_handler ==
    /\ cb.pc = "idle"
    /\ iq.pc = "idle"
    /\ loop = "none"
    /\ surface.markup.kind = "controls"
    /\ \E u \in Users, a \in keyboard(surface.markup.int_frac_mode) \cup ForeignActions,
          fault \in Faults, answered \in BOOLEAN :
          LET m == surface.markup
              data == Corrupt(callback_data(m.user_id, m.request, m.start_end_mode,
                                            m.int_frac_mode, a), fault)
          IN  /\ InBounds(m, a)
              /\ fault # "none" => a \in FaultyPresses
              /\ cb' = callback_entry([cb_idle EXCEPT !.from_user = u, !.data = data,
                                                      !.before = surface,
                                                      !.pressed = a,
                                                      !.fault = fault],
                                      answered)
    /\ UNCHANGED <<surface, dlVars, loopVars>>

\* the handler has returned; its frame and the record of its download are
\* dropped
cb_return ==
    /\ cb.pc = "done"
    /\ cb' = cb_idle
    /\ run' = run_idle
    /\ files' = {}
    /\ UNCHANGED <<surface, loopVars>>

\* lines 299-314: video and audio first replace the keyboard by the
\* 'loading' link button
cb_edit_loading ==
    /\ cb.pc = "answered"
    /\ cb.action \in {tok_video, tok_audio}
    /\ \E ok \in BOOLEAN :
          LET e == edit_message_caption(caption_url(cb.request), url_keyboard("loading"), ok)
          IN  /\ surface' = Edited(surface, e)
              /\ cb' = IF ok THEN [cb EXCEPT !.edits = Append(@, e), !.pc = "render"]
                       ELSE Raised([cb EXCEPT !.edits = Append(@, e)], "TelegramAPIError")
    /\ UNCHANGED <<dlVars, loopVars>>

\* lines 316-318: download_file is called in the handler itself, so the
\* event loop stays with this handler until it returns
cb_download_file ==
    /\ \/ cb.pc = "render"
       \/ cb.pc = "answered" /\ cb.action = tok_preview
    /\ loop = "none"
    /\ download_file("cb", cb.action)
    /\ cb' = [cb EXCEPT !.pc = "downloading", !.runs = @ + 1]
    /\ loop' = "cb"
    /\ UNCHANGED <<surface, iq, handlers, last_messages, now, recent, chat>>

\* lines 319-335 and 399: download_file raised.  A YoutubeDLError is shown
\* with the "Error" link button and re-raised; any other exception goes
\* straight to the handler's except clause
cb_download_raised ==
    /\ cb.pc = "downloading"
    /\ run.owner = "cb" /\ run.state = "raised"
    /\ \E ok \in BOOLEAN :
          IF run.exc \in YoutubeDLErrors
          THEN LET e == edit_message_caption(caption_error(cb.request, run.exc),
                                             url_keyboard("Error"), ok)
               IN  /\ surface' = Edited(surface, e)
                   /\ cb' = Raised([cb EXCEPT !.edits = Append(@, e)],
                                   IF ok THEN run.exc ELSE "TelegramAPIError")
          ELSE /\ ok
               /\ surface' = surface
               /\ cb' = Raised(cb, run.exc)
    /\ loop' = "none"
    /\ UNCHANGED <<iq, dlVars, handlers, last_messages, now, recent, chat>>

\* lines 338, 347, 356: the file is first sent to the bot's channel
cb_send_media ==
    /\ cb.pc = "downloading"
    /\ run.owner = "cb" /\ run.state = "returned"
    /\ \E ok \in BOOLEAN :
          cb' = IF ok THEN [cb EXCEPT !.pc = "sent"] ELSE Raised(cb, "TelegramAPIError")
    /\ loop' = "none"
    /\ UNCHANGED <<surface, iq, dlVars, handlers, last_messages, now, recent, chat>>

\* lines 339-364: the message's media is replaced; only preview passes a
\* reply_markup, so video and audio leave the message without a keyboard
cb_edit_media ==
    /\ cb.pc = "sent"
    /\ \E ok \in BOOLEAN :
          LET e == IF cb.action = tok_video
                   THEN edit_message_media("video", caption_url(cb.request), no_keyboard, ok)
                   ELSE IF cb.action = tok_audio
                   THEN edit_message_media("audio", caption_url(cb.request), no_keyboard, ok)
                   ELSE edit_message_media("video", caption_query(cb.request),
                            make_inline_keyboard(cb.from_user, cb.request,
                                                 cb.start_end_mode, cb.int_frac_mode), ok)
          IN  /\ surface' = Edited(surface, e)
              /\ cb' = IF ok THEN [cb EXCEPT !.edits = Append(@, e), !.pc = "done"]
                       ELSE Raised([cb EXCEPT !.edits = Append(@, e)], "TelegramAPIError")
    /\ UNCHANGED <<dlVars, loopVars>>

\* a focus switch that always ends on 'end'
toggle_start_end_stuck(action, start_end_mode) ==
    IF action = tok_sw_m THEN tok_end ELSE start_end_mode

\* line 366: 'end' if start_end_mode == 'start' else 'start'
toggle_start_end(action, start_end_mode) ==
    IF action = tok_sw_m
    THEN (IF start_end_mode = tok_start THEN tok_end ELSE tok_start)
    ELSE start_end_mode

\* line 372: 'frac' if int_frac_mode == 'int' else 'int'
toggle_int_frac(action, int_frac_mode) ==
    IF action = tok_sw_i
    THEN (IF int_frac_mode = tok_int THEN tok_frac ELSE tok_int)
    ELSE int_frac_mode

\* lines 365-376: sw_m and sw_i flip one mode and rewrite the keyboard
cb_toggle ==
    /\ cb.pc = "answered"
    /\ cb.action \in ToggleActions
    /\ \E ok \in BOOLEAN :
          LET sem == toggle_start_end(cb.action, cb.start_end_mode)
              ifm == toggle_int_frac(cb.action, cb.int_frac_mode)
              e == edit_message_reply_markup(
                       make_inline_keyboard(cb.from_user, cb.request, sem, ifm), ok)
          IN  /\ surface' = Edited(surface, e)
              /\ cb' = IF ok
                       THEN [cb EXCEPT !.edits = Append(@, e), !.pc = "done",
                                       !.start_end_mode = sem, !.int_frac_mode = ifm]
                       ELSE Raised([cb EXCEPT !.edits = Append(@, e),
                                              !.start_end_mode = sem,
                                              !.int_frac_mode = ifm], "TelegramAPIError")
    /\ UNCHANGED <<dlVars, loopVars>>

\* lines 377-398: every other action is read as a delta
cb_adjust ==
    /\ cb.pc = "answered"
    /\ cb.action \notin RenderActions \cup ToggleActions
    /\ LET delta == py_float(cb.action)
       IN  IF ~delta.ok
           THEN /\ cb' = Raised(cb, "ValueError")
                /\ surface' = surface
           ELSE \E err \in {-1, 0, 1}, ok \in BOOLEAN :
                  LET request == adjust(cb.request, cb.start_end_mode, delta.x, err)
                      e == edit_message_caption(caption_query(request),
                               make_inline_keyboard(cb.from_user, request,
                                   cb.start_end_mode, cb.int_frac_mode), ok)
                  IN  IF NumEq(cb.request.start, request.start)
                         /\ NumEq(cb.request.end, request.end)
                      THEN /\ ok
                           /\ cb' = [cb EXCEPT !.pc = "done", !.request = request]
                           /\ surface' = surface
                      ELSE /\ surface' = Edited(surface, e)
                           /\ cb' = IF ok
                                    THEN [cb EXCEPT !.edits = Append(@, e), !.pc = "done",
                                                    !.request = request]
                                    ELSE Raised([cb EXCEPT !.edits = Append(@, e),
                                                           !.request = request],
                                                "TelegramAPIError")
    /\ UNCHANGED <<dlVars, loopVars>>

\* what match_request gives for one text: a request, None, or ValueError
ParseOutcomes == {"request", "none", "invalid"}

iq_idle ==
    [pc |-> "idle", from_user |-> 0, request |-> Request(<<>>, IntNum(0), IntNum(0)),
     attempts |-> <<>>, used |-> 0, results |-> "none"]

\* first_some(xs): the first element that is not None (0: there is none)
first_some(xs) ==
    IF \E i \in 1..Len(xs) : xs[i] # "none"
    THEN CHOOSE i \in 1..Len(xs) : xs[i] # "none" /\ \A j \in 1..(i - 1) : xs[j] = "none"
    ELSE 0

\* lines 250-265: the three texts are parsed while the list is built, so a
\* ValueError of any of them leaves the try block before first_some is
\* called; otherwise first_some picks among the results.  The model
\* follows one inline message, from the query that creates it
inline_query ==
    /\ cb.pc = "idle"
    /\ iq.pc = "idle"
    /\ loop = "none"
    /\ surface = no_surface
    /\ \E q \in InlineQueries, xs \in [1..3 -> ParseOutcomes] :
          LET raised == \E i \in 1..3 : xs[i] = "invalid"
              n == IF raised THEN 0 ELSE first_some(xs)
          IN  iq' = [pc |-> "answer", from_user |-> q.from_user, request |-> q.request,
                     attempts |-> xs, used |-> n,
                     results |-> IF n = 0 THEN "empty" ELSE "one"]
    /\ UNCHANGED <<surface, cb, dlVars, loop, handlers, last_messages, now, recent, chat>>

\* lines 259-281: answer_inline_query with no result, or with the photo
\* that carries the control keyboard
iq_answer ==
    /\ iq.pc = "answer"
    /\ surface' = IF iq.results = "one"
                  THEN [media   |-> "photo",
                        caption |-> caption_query(iq.request),
                        markup  |-> make_inline_keyboard(iq.from_user, iq.request,
                                                         tok_end, tok_int)]
                  ELSE surface
    /\ iq' = iq_idle
    /\ UNCHANGED <<cb, dlVars, loop, handlers, last_messages, now, recent, chat>>

(***************************************************************************)
(* last_messages = TTLCache(maxsize, ttl): the links in order of use, least *)
(* recently used first, each [key, value, expires].                        *)
(***************************************************************************)
\* an entry that is still alive at the instant it expires
Expired_late(link, time) == link.expires < time

\* an item is expired once the timer is no longer before its expiry time
Expired(link, time) == ~(time < link.expires)

\* TTLCache.expire(time): drops the expired items
cache_expire(c, time) == SelectSeq(c, LAMBDA l : ~Expired(l, time))

HasKey(c, key) == \E i \in 1..Len(c) : c[i].key = key

LinkOf(c, key) == c[CHOOSE i \in 1..Len(c) : c[i].key = key]

Without(c, key) == SelectSeq(c, LAMBDA l : l.key # key)

\* TTLCache.popitem() after expire(time): drops the least recently used item
RECURSIVE cache_evict(_)
cache_evict(c) == IF Len(c) + 1 > maxsize THEN cache_evict(Tail(c)) ELSE c

\* last_messages[key] = value at timer value time: expired items go first,
\* then least recently used ones while the cache is full; the item becomes
\* the most recently used and expires at time + ttl
cache_setitem(c, key, value, time) ==
    LET c1 == cache_expire(c, time)
        c2 == IF HasKey(c1, key) THEN Without(c1, key) ELSE cache_evict(c1)
    IN  Append(c2, [key |-> key, value |-> value, expires |-> time + ttl])

\* a lookup that leaves the order of the links alone
cache_getitem_unmoved(c, key, time) ==
    IF ~HasKey(c, key) THEN [found |-> FALSE, value |-> 0, c |-> c]
    ELSE LET l == LinkOf(c, key)
         IN  [found |-> ~Expired(l, time), value |-> l.value, c |-> c]

\* last_messages[key] at timer value time: the link becomes the most
\* recently used; found is FALSE where KeyError is raised
cache_getitem(c, key, time) ==
    IF ~HasKey(c, key) THEN [found |-> FALSE, value |-> 0, c |-> c]
    ELSE LET l == LinkOf(c, key)
         IN  [found |-> ~Expired(l, time), value |-> l.value,
              c |-> Append(Without(c, key), l)]

\* the order of last use after key was stored or found
Used(r, key) == Append(SelectSeq(r, LAMBDA k : k # key), key)

(***************************************************************************)
(* handle_message and handle_message_edit, one step from await to await.   *)
(***************************************************************************)
\* the message handlers the event loop runs side by side
Slots == {"h1", "h2"}

\* (chat id, message id) of the originating messages
Keys == {<<1, 10>>, <<1, 11>>, <<2, 10>>}

h_idle ==
    [kind |-> "none", pc |-> "idle", key |-> <<0, 0>>, parsed |-> "none",
     know_message |-> FALSE, video_mes_id |-> 0, looked_at |-> 0,
     calls |-> <<>>, raised |-> "none"]

chat_empty == [results |-> 0, remembered |-> -1, evicted |-> FALSE]

\* result messages sent so far
TotalSent == chat[<<1, 10>>].results + chat[<<1, 11>>].results + chat[<<2, 10>>].results

\* a message arrives (lines 130-142): match_request(message.text) gives a
\* request, None or raises ValueError; the reply to a ValueError calls
\* message.reply_text, which aiogram's Message does not have
handle_message(h, K) ==
    /\ handlers[h].pc = "idle"
    /\ loop = "none"
    /\ TotalSent < MaxSent
    /\ \E key \in K, parsed \in {"request", "none", "invalid"} :
          LET f == [h_idle EXCEPT !.kind = "message", !.key = key, !.parsed = parsed]
          IN  handlers' = [handlers EXCEPT ![h] =
                  IF parsed = "invalid" THEN Raised(f, "AttributeError")
                  ELSE IF parsed = "none" THEN [f EXCEPT !.pc = "done"]
                  ELSE [f EXCEPT !.pc = "chat_action",
                                 !.calls = <<"send_chat_action">>]]
    /\ UNCHANGED <<surfVars, dlVars, loop, last_messages, now, recent, chat>>

\* an edited message arrives (lines 157-178): the cache is asked for the
\* result sent for it before the text is parsed
handle_message_edit(h, K) ==
    /\ handlers[h].pc = "idle"
    /\ loop = "none"
    /\ \E key \in K, parsed \in {"request", "none", "invalid"} :
          LET got == cache_getitem(last_messages, key, now)
              f == [h_idle EXCEPT !.kind = "edit", !.key = key, !.parsed = parsed,
                                  !.know_message = got.found,
                                  !.video_mes_id = IF got.found THEN got.value ELSE 0,
                                  !.looked_at = now]
          IN  /\ (parsed = "request" /\ ~got.found) => TotalSent < MaxSent
              /\ last_messages' = got.c
              /\ recent' = IF got.found THEN Used(recent, key) ELSE recent
              /\ handlers' = [handlers EXCEPT ![h] =
                    IF parsed = "invalid"
                    THEN [f EXCEPT !.pc = "error_reply",
                                   !.calls = IF got.found THEN <<"edit_message_caption">>
                                             ELSE <<"answer">>]
                    ELSE IF parsed = "none" THEN [f EXCEPT !.pc = "done"]
                    ELSE [f EXCEPT !.pc = "chat_action",
                                   !.calls = <<"send_chat_action">>]]
    /\ UNCHANGED <<surfVars, dlVars, loop, now, chat>>

\* lines 168-171: the error text has been sent, or the transport refused it
h_error_replied(h) ==
    /\ handlers[h].pc = "error_reply"
    /\ loop = "none"
    /\ \E ok \in BOOLEAN :
          handlers' = [handlers EXCEPT ![h] =
              IF ok THEN [@ EXCEPT !.pc = "done"] ELSE Raised(@, "TelegramAPIError")]
    /\ UNCHANGED <<surfVars, dlVars, loop, last_messages, now, recent, chat>>

\* lines 142-144 and 178-180: after send_chat_action the handler calls
\* download_file itself and keeps the event loop until it returns
h_download_file(h) ==
    /\ handlers[h].pc = "chat_action"
    /\ loop = "none"
    /\ \E ok \in BOOLEAN :
          IF ok
          THEN /\ download_file(h, tok_video)
               /\ loop' = h
               /\ handlers' = [handlers EXCEPT ![h].pc = "downloading"]
          ELSE /\ UNCHANGED <<dlVars, loop>>
               /\ handlers' = [handlers EXCEPT ![h] = Raised(@, "TelegramAPIError")]
    /\ UNCHANGED <<surfVars, last_messages, now, recent, chat>>

\* lines 145 and 182-190: download_file returned or raised; a known edited
\* message has its result edited, anything else gets a new result message
h_download_done(h) ==
    /\ handlers[h].pc = "downloading"
    /\ run.owner = h /\ run.state \in {"returned", "raised"}
    /\ handlers' = [handlers EXCEPT ![h] =
          IF run.state = "raised" THEN Raised(@, run.exc)
          ELSE IF @.kind = "edit" /\ @.know_message
          THEN [@ EXCEPT !.pc = "editing", !.calls = Append(@, "edit_message_media")]
          ELSE [@ EXCEPT !.pc = "sending", !.calls = Append(@, "send_video")]]
    /\ loop' = "none"
    /\ run' = run_idle
    /\ files' = {}
    /\ UNCHANGED <<surfVars, last_messages, now, recent, chat>>

\* lines 183-186: edit_message_media has come back
h_edited(h) ==
    /\ handlers[h].pc = "editing"
    /\ loop = "none"
    /\ \E ok \in BOOLEAN :
          handlers' = [handlers EXCEPT ![h] =
              IF ok THEN [@ EXCEPT !.pc = "done"] ELSE Raised(@, "TelegramAPIError")]
    /\ UNCHANGED <<surfVars, dlVars, loop, last_messages, now, recent, chat>>

\* the key is stored whether or not send_video went through
h_sent_unguarded(h) ==
    /\ handlers[h].pc = "sending"
    /\ loop = "none"
    /\ \E ok \in BOOLEAN :
          LET key == handlers[h].key
              id == TotalSent + 1
              c == cache_setitem(last_messages, key, id, now)
          IN  IF ok
              THEN /\ handlers' = [handlers EXCEPT ![h].pc = "done",
                                                   ![h].video_mes_id = id]
                   /\ last_messages' = c
                   /\ recent' = Used(recent, key)
                   /\ chat' = [k \in Keys |->
                          IF k = key
                          THEN [results |-> chat[k].results + 1, remembered |-> now,
                                evicted |-> FALSE]
                          ELSE [chat[k] EXCEPT !.evicted =
                                   @ \/ (/\ HasKey(cache_expire(last_messages, now), k)
                                         /\ ~HasKey(c, k))]]
              ELSE /\ handlers' = [handlers EXCEPT ![h] = Raised(@, "TelegramAPIError")]
                   /\ last_messages' = c
                   /\ UNCHANGED <<recent, chat>>
    /\ UNCHANGED <<surfVars, dlVars, loop, now>>

\* lines 145-149 and 188-192: send_video has come back; the id of the new
\* result message is remembered under the originating message's key
h_sent(h) ==
    /\ handlers[h].pc = "sending"
    /\ loop = "none"
    /\ \E ok \in BOOLEAN :
          LET key == handlers[h].key
              id == TotalSent + 1
              c == cache_setitem(last_messages, key, id, now)
          IN  IF ok
              THEN /\ handlers' = [handlers EXCEPT ![h].pc = "done",
                                                   ![h].video_mes_id = id]
                   /\ last_messages' = c
                   /\ recent' = Used(recent, key)
                   /\ chat' = [k \in Keys |->
                          IF k = key
                          THEN [results |-> chat[k].results + 1, remembered |-> now,
                                evicted |-> FALSE]
                          ELSE [chat[k] EXCEPT !.evicted =
                                   @ \/ (/\ HasKey(cache_expire(last_messages, now), k)
                                         /\ ~HasKey(c, k))]]
              ELSE /\ handlers' = [handlers EXCEPT ![h] = Raised(@, "TelegramAPIError")]
                   /\ UNCHANGED <<last_messages, recent, chat>>
    /\ UNCHANGED <<surfVars, dlVars, loop, now>>

\* the handler has returned
h_return(h) ==
    /\ handlers[h].pc = "done"
    /\ handlers' = [handlers EXCEPT ![h] = h_idle]
    /\ UNCHANGED <<surfVars, dlVars, loop, last_messages, now, recent, chat>>

\* the cache's timer advances
Tick ==
    /\ now < MaxTime
    /\ now' = now + 1
    /\ UNCHANGED <<surfVars, dlVars, loop, handlers, last_messages, recent, chat>>

(***************************************************************************)
(* The control surface: one inline message and its callback handler.       *)
(***************************************************************************)
Init ==
    /\ surface = no_surface
    /\ cb = cb_idle
    /\ iq = iq_idle
    /\ run = run_idle
    /\ files = {}
    /\ loop = "none"
    /\ handlers = [h \in Slots |-> h_idle]
    /\ last_messages = <<>>
    /\ now = 0
    /\ recent = <<>>
    /\ chat = [k \in Keys |-> chat_empty]

Next ==
    \/ inline_query
    \/ iq_answer
    \/ inline_kb_answer_callback_handler
    \/ cb_edit_loading
    \/ cb_download_file
    \/ get_file_url
    \/ download_clip_extract
    \/ download_clip_encode
    \/ download_clip_read
    \/ cb_download_raised
    \/ cb_send_media
    \/ cb_edit_media
    \/ cb_toggle
    \/ cb_adjust
    \/ cb_return

Spec == Init /\ [][Next]_vars

(***************************************************************************)
(* The event loop: message and edited-message handlers side by side.       *)
(***************************************************************************)
LoopKeys == {<<1, 10>>, <<2, 10>>}

NextLoop ==
    \/ \E h \in Slots : handle_message(h, LoopKeys)
    \/ \E h \in Slots : handle_message_edit(h, LoopKeys)
    \/ \E h \in Slots : h_error_replied(h)
    \/ \E h \in Slots : h_download_file(h)
    \/ get_file_url
    \/ download_clip_extract
    \/ download_clip_encode
    \/ download_clip_read
    \/ \E h \in Slots : h_download_done(h)
    \/ \E h \in Slots : h_edited(h)
    \/ \E h \in Slots : h_sent(h)
    \/ \E h \in Slots : h_return(h)

SpecLoop == Init /\ [][NextLoop]_vars

(***************************************************************************)
(* The cache over time: one handler at a time, the timer advancing.        *)
(***************************************************************************)
NextCache ==
    \/ handle_message("h1", Keys)
    \/ handle_message_edit("h1", Keys)
    \/ h_error_replied("h1")
    \/ h_download_file("h1")
    \/ get_file_url
    \/ download_clip_extract
    \/ download_clip_encode
    \/ download_clip_read
    \/ h_download_done("h1")
    \/ h_edited("h1")
    \/ h_sent("h1")
    \/ h_return("h1")
    \/ Tick

SpecCache == Init /\ [][NextCache]_vars

(***************************************************************************)
(* The keyboard as a function of the state it encodes: make_inline_keyboard *)
(* applied to owners, ids and ranges of every width.                       *)
(***************************************************************************)
\* owner ids of one and of ten digits
WideUsers == {7, 2000000000}

\* source ids as short as the pattern allows and of the usual eleven
\* characters
WideIds ==
    { <<"d", "Q", "w", "4">>,
      <<"d", "Q", "w", "4", "w", "9", "W", "g", "X", "c", "Q">> }

\* times a sequence of adjustments arrives at: 0, 0.5 s, 12 h, and
\* 100000000.5 s
WideTimes == {IntNum(0), FloatNum(5), FloatNum(432005), FloatNum(1000000005)}

\* the size limit of callback_data in the transport, in bytes
PayloadCeiling == 64

\* make_inline_keyboard(user_id, request, start_end_mode, int_frac_mode)
\* for a state with 0 <= start <= end, put on the message
render_controls ==
    /\ \E u \in WideUsers, id \in WideIds, st \in WideTimes, en \in WideTimes,
          sem \in {tok_start, tok_end}, ifm \in {tok_int, tok_frac} :
          /\ st.t <= en.t
          /\ surface' = [media   |-> "photo",
                         caption |-> caption_query(Request(id, st, en)),
                         markup  |-> make_inline_keyboard(u, Request(id, st, en), sem, ifm)]
    /\ UNCHANGED <<cb, iq, dlVars, loop, handlers, last_messages, now, recent, chat>>

NextPayload == render_controls

SpecPayload == Init /\ [][NextPayload]_vars

(***************************************************************************)
(* Claims.                                                                 *)
(***************************************************************************)
DeltaActions == IntDeltas \cup FracDeltas

\* the keyboard the handler's callback came from
Pressed == cb.before.markup

\* C1: the fields the handler has decoded from a button's payload (owner as
\* int, start and end as float, the other tokens as split) are the owner,
\* source id, start, end, focus, granularity and action that
\* make_inline_keyboard encoded, and decoding never fails on such a payload.
C1_RoundTrip ==
    (cb.pc # "idle" /\ cb.fault = "none"
        /\ cb.pressed \in keyboard(Pressed.int_frac_mode)) =>
    /\ cb.raised # "ValueError"
    /\ cb.pc = "answered" =>
          /\ cb.user_id = Pressed.user_id
          /\ cb.request.youtube_id = Pressed.request.youtube_id
          /\ cb.request.start.t = Pressed.request.start.t
          /\ cb.request.start.e = 0
          /\ cb.request.end.t = Pressed.request.end.t
          /\ cb.request.end.e = 0
          /\ cb.start_end_mode = Pressed.start_end_mode
          /\ cb.int_frac_mode = Pressed.int_frac_mode
          /\ cb.action = cb.pressed

\* a payload with a four-digit owner, an id starting with '-', an int start
\* written "0", a fractional end and a negative fractional delta
C1_Witness ==
    /\ cb.pc = "answered"
    /\ cb.user_id = 4242
    /\ cb.request.youtube_id = <<"-", "x", "_", "9">>
    /\ Pressed.request.start.ty = "int"
    /\ cb.request.end.t = 7
    /\ cb.start_end_mode = tok_start
    /\ cb.action = <<"-", "0", ".", "5">>

ValidRange(request) ==
    /\ 0 <= request.start.t
    /\ request.start.t <= request.end.t
    /\ request.start.e = 0
    /\ request.end.e = 0

\* C2: the request of the control keyboard on the message, and of every
\* keyboard an adjust, toggle or preview writes back, satisfies
\* 0 <= start <= end.
C2_RangeInvariant ==
    /\ surface.markup.kind = "controls" => ValidRange(surface.markup.request)
    /\ \A i \in 1..Len(cb.edits) :
          cb.edits[i].markup.kind = "controls" => ValidRange(cb.edits[i].markup.request)

\* a START adjustment of -1 from 0.5 has been clamped to 0 and written back
C2_Witness ==
    /\ cb.pc = "done"
    /\ cb.action = <<"-", "1">>
    /\ cb.start_end_mode = tok_start
    /\ Pressed.request.start.t = 5
    /\ surface.markup.kind = "controls"
    /\ surface.markup.request.start.t = 0
    /\ surface.markup.request.end.t = 11

AdjustDone ==
    /\ cb.pc = "done"
    /\ cb.action \in DeltaActions
    /\ cb.raised # "ValueError"

RangeChanged ==
    \/ cb.request.start.t # Pressed.request.start.t
    \/ cb.request.end.t # Pressed.request.end.t

\* C3: an adjust that leaves (start, end) as they were issues no edit and
\* starts no download; one that changes them issues exactly one
\* edit_message_caption whose caption and keyboard carry the new range.
C3_NoOpAdjust ==
    AdjustDone =>
        /\ cb.runs = 0
        /\ run = run_idle
        /\ ~RangeChanged => cb.edits = <<>> /\ surface = cb.before
        /\ RangeChanged =>
              /\ Len(cb.edits) = 1
              /\ cb.edits[1].op = "edit_message_caption"
              /\ cb.edits[1].caption = caption_query(cb.request)
              /\ cb.edits[1].markup =
                    make_inline_keyboard(cb.from_user, cb.request,
                                         Pressed.start_end_mode, Pressed.int_frac_mode)

\* -1 pressed on START at 0: nothing was edited
C3_Witness ==
    /\ AdjustDone
    /\ cb.action = <<"-", "1">>
    /\ Pressed.start_end_mode = tok_start
    /\ Pressed.request.start.t = 0
    /\ Pressed.request.end.t = 3
    /\ cb.edits = <<>>

\* C4: a callback from a user who is not the owner written in the payload is
\* answered with the rejection notice and nothing else happens: no edit, no
\* download, the message as it was.
C4_OwnerOnly ==
    (cb.pc # "idle" /\ cb.fault \notin {"fewer", "more", "owner"}
        /\ cb.from_user # Pressed.user_id) =>
        /\ cb.answer = "rejected"
        /\ cb.pc = "done"
        /\ cb.edits = <<>>
        /\ cb.runs = 0
        /\ run = run_idle
        /\ files = {}
        /\ surface = cb.before

\* user 7 pressed 'video' on the keyboard of user 4242 and was rejected
C4_Witness ==
    /\ cb.pc = "done"
    /\ cb.from_user = 7
    /\ Pressed.user_id = 4242
    /\ cb.pressed = tok_video
    /\ cb.answer = "rejected"
    /\ cb.raised = "none"

\* C5: the attempts of a download_file call are the configured formats of
\* its type in list order; every attempt but the last failed with
\* FFRuntimeError or DownloadError; after a success or any other failure the
\* call is over, and it is over as raised only when the last attempt failed.
C5_FallbackOrder ==
    LET fmts == FORMATS_BY_TYPE[run.type_]
        n == Len(run.tried)
    IN  /\ n <= Len(fmts)
        /\ \A k \in 1..n : run.tried[k].format = fmts[k]
        /\ \A k \in 1..(n - 1) : run.tried[k].outcome \in FormatUnusable
        /\ run.state = "running" =>
              /\ run.i = n + 1
              /\ n < Len(fmts)
        /\ run.state = "returned" => n >= 1 /\ run.tried[n].outcome = "ok"
        /\ run.state = "raised" =>
              /\ n >= 1
              /\ run.tried[n].outcome # "ok"
              /\ run.exc = run.tried[n].outcome
              /\ run.tried[n].outcome \in FormatUnusable => n = Len(fmts)
        /\ (n >= 1 /\ run.tried[n].outcome \notin FormatUnusable) => run.state # "running"

\* 'video': 'best' failed in the transcoder, 'best[height<720]' succeeded
C5_Witness ==
    /\ run.state = "returned"
    /\ run.type_ = tok_video
    /\ Len(run.tried) = 2
    /\ run.tried[1].outcome = "FFRuntimeError"
    /\ run.tried[2].format = "best[height<720]"

\* a render action whose download_file call raised after its last candidate
\* failed as unusable
RenderExhausted ==
    /\ cb.pc = "done"
    /\ cb.action \in RenderActions
    /\ run.owner = "cb"
    /\ run.state = "raised"
    /\ run.exc \in FormatUnusable

\* C6: after a render action failed on every candidate the message still
\* carries the control keyboard of the same owner and range.
C6_KeyboardKept == RenderExhausted => surface.markup = Pressed

\* C7: whenever a render action's download_file call raised after the last
\* candidate, with a DownloadError or an FFRuntimeError, the handler has
\* issued an edit whose caption shows that failure.
C7_FailureShown ==
    RenderExhausted =>
        \E i \in 1..Len(cb.edits) :
            /\ cb.edits[i].caption.fmt = "url_error"
            /\ cb.edits[i].caption.err = run.exc

\* C8: once download_file has returned or raised, none of the files its
\* download_clip calls wrote exists any more.
C8_NoFilesLeft == run.state \in {"returned", "raised"} => files = {}

\* C9: while a download_file call is in progress for one handler, the event
\* loop can take up a message for an idle handler.
C9_EventPathFree ==
    \A h \in Slots :
        (run.state = "running" /\ run.owner # h /\ handlers[h].pc = "idle"
            /\ TotalSent < MaxSent)
        => ENABLED handle_message(h, LoopKeys)

\* the frames of handle_message_edit that have looked the key up and done
\* nothing to the cache since
JustLooked(f) == f.kind = "edit" /\ f.pc \in {"error_reply", "chat_action"}

\* C10: a lookup in handle_message_edit finds the entry remembered at T if
\* it is made before T + ttl and the entry was not evicted for capacity, and
\* never finds it at or after T + ttl: the edit is then handled as one of an
\* unknown message.
C10_CacheExpiry ==
    \A h \in Slots :
        LET f == handlers[h]
            T == chat[f.key].remembered
        IN  JustLooked(f) =>
              /\ f.know_message => (T >= 0 /\ f.looked_at < T + ttl)
              /\ (T >= 0 /\ f.looked_at < T + ttl /\ ~chat[f.key].evicted)
                    => f.know_message
              /\ (T >= 0 /\ f.looked_at >= T + ttl) =>
                    /\ ~f.know_message
                    /\ f.calls \in {<<"answer">>, <<"send_chat_action">>}

\* an edit looked its key up exactly ttl after the entry was remembered and
\* did not find it
C10_Witness ==
    \E h \in Slots :
        /\ JustLooked(handlers[h])
        /\ chat[handlers[h].key].remembered >= 0
        /\ handlers[h].looked_at = chat[handlers[h].key].remembered + ttl
        /\ ~chat[handlers[h].key].evicted
        /\ ~handlers[h].know_message

CacheKeys(c) == {c[i].key : i \in 1..Len(c)}

\* of the keys of live, the one whose last store or successful lookup is
\* the oldest
LRUKey(live) ==
    recent[CHOOSE i \in 1..Len(recent) :
              /\ recent[i] \in CacheKeys(live)
              /\ \A j \in 1..(i - 1) : recent[j] \notin CacheKeys(live)]

\* a step that stores a key which had no unexpired entry
StoresNew(k) ==
    /\ chat'[k].results # chat[k].results
    /\ ~HasKey(cache_expire(last_messages, now), k)

C11_Step ==
    LET live == cache_expire(last_messages, now)
    IN  \A k \in Keys :
          StoresNew(k) =>
              CacheKeys(last_messages') =
                  IF Len(live) = maxsize
                  THEN (CacheKeys(live) \ {LRUKey(live)}) \cup {k}
                  ELSE CacheKeys(live) \cup {k}

\* C11: last_messages never holds more than maxsize entries, and storing a
\* new key while maxsize unexpired entries are present removes exactly one
\* of them: the one least recently stored or found by a lookup.
C11_Capacity ==
    /\ [](Len(last_messages) <= maxsize /\ Cardinality(CacheKeys(last_messages)) = Len(last_messages))
    /\ [][C11_Step]_vars

\* the cache is full of unexpired entries; key k was stored after key j, j
\* was used again by a lookup, and a later store evicted k and kept j
C11_Witness ==
    /\ Len(cache_expire(last_messages, now)) = maxsize
    /\ \E k, j \in Keys :
          /\ chat[k].evicted
          /\ ~HasKey(last_messages, k)
          /\ HasKey(cache_expire(last_messages, now), j)
          /\ chat[j].remembered >= 0
          /\ chat[j].remembered < chat[k].remembered

\* the payload does not unpack into seven fields, or its owner, start or
\* end is not a number
Malformed(data) ==
    LET f == split(data)
    IN  \/ Len(f) # 7
        \/ ~py_int(f[1]).ok
        \/ ~py_float(f[3]).ok
        \/ ~py_float(f[4]).ok

\* C12: for a callback payload with the wrong number of fields or a
\* non-numeric owner, start or end, the handler has returned without an
\* exception leaving it, without an edit of the message and without a
\* download_file call.
C12_MalformedRejected ==
    (cb.pc # "idle" /\ cb.fault # "none" /\ Malformed(cb.data)) =>
        /\ cb.pc = "done"
        /\ cb.edits = <<>>
        /\ cb.runs = 0
        /\ run = run_idle
        /\ files = {}
        /\ surface = cb.before

\* the owner's payload with a non-numeric end: answered, then float(end)
\* raised ValueError, which the handler logged
C12_Witness ==
    /\ cb.pc = "done"
    /\ cb.fault = "end"
    /\ Malformed(cb.data)
    /\ cb.from_user = Pressed.user_id
    /\ cb.answer = "ok"
    /\ cb.raised = "ValueError"

\* the payload is well formed and from the owner, the handler has decoded
\* it, and its action is neither a render trigger nor a toggle nor a delta a
\* keyboard offers
UnofferedAction ==
    /\ cb.pc = "done"
    /\ ~Malformed(cb.data)
    /\ cb.from_user = Pressed.user_id
    /\ cb.user_id = Pressed.user_id
    /\ split(cb.data)[7] \notin RenderActions \cup ToggleActions \cup DeltaActions

\* C13: an action token from the owner that is no render trigger, toggle or
\* offered delta changes neither start nor end and causes no edit of the
\* message.
C13_ActionValidated ==
    UnofferedAction =>
        /\ cb.request.start.t = Pressed.request.start.t
        /\ cb.request.end.t = Pressed.request.end.t
        /\ cb.edits = <<>>
        /\ surface = cb.before

\* the calls that deliver a text to the user
Deliveries == {<<"reply">>, <<"answer">>, <<"edit_message_caption">>}

\* C14: a handler whose match_request raised a validation error has issued
\* the call that delivers the error text (a reply, or the caption of the
\* known result), and has started no download_file call.
C14_ParseErrorSurfaced ==
    \A h \in Slots :
        (handlers[h].pc # "idle" /\ handlers[h].parsed = "invalid") =>
            /\ handlers[h].calls \in Deliveries
            /\ run.owner # h

\* what the cache maps: key, value and expiry time of every entry
CacheMap(c) == {c[i] : i \in 1..Len(c)}

ToggleDone ==
    /\ cb.pc = "done"
    /\ cb.fault = "none"
    /\ cb.pressed \in ToggleActions
    /\ cb.user_id = Pressed.user_id

\* C16: a toggle issues exactly one edit_message_reply_markup and no
\* download_file call; the keyboard it writes has the owner, source id,
\* start and end of the one pressed, sw_m changes the focus to the other of
\* start/end and keeps the granularity, sw_i changes the granularity to the
\* other of int/frac and keeps the focus, and the same toggle applied to
\* the new keyboard gives back the modes of the one pressed.
C16_TogglePure ==
    ToggleDone =>
        /\ cb.runs = 0
        /\ run = run_idle
        /\ Len(cb.edits) = 1
        /\ LET e == cb.edits[1]
               m == e.markup
           IN  /\ e.op = "edit_message_reply_markup"
               /\ e.caption = caption_keep
               /\ e.media = "keep"
               /\ m.kind = "controls"
               /\ m.user_id = Pressed.user_id
               /\ m.request.youtube_id = Pressed.request.youtube_id
               /\ m.request.start.t = Pressed.request.start.t
               /\ m.request.end.t = Pressed.request.end.t
               /\ {m.start_end_mode, Pressed.start_end_mode} \subseteq {tok_start, tok_end}
               /\ {m.int_frac_mode, Pressed.int_frac_mode} \subseteq {tok_int, tok_frac}
               /\ (m.start_end_mode # Pressed.start_end_mode) = (cb.pressed = tok_sw_m)
               /\ (m.int_frac_mode # Pressed.int_frac_mode) = (cb.pressed = tok_sw_i)
               /\ toggle_start_end(cb.pressed, m.start_end_mode) = Pressed.start_end_mode
               /\ toggle_int_frac(cb.pressed, m.int_frac_mode) = Pressed.int_frac_mode
               /\ e.ok => surface = [cb.before EXCEPT !.markup = m]

\* sw_m pressed on a keyboard whose focus was 'start' in 'frac' mode: the
\* message now has focus 'end', still 'frac', the range as it was
C16_Witness ==
    /\ ToggleDone
    /\ cb.pressed = tok_sw_m
    /\ Pressed.start_end_mode = tok_start
    /\ Pressed.int_frac_mode = tok_frac
    /\ Pressed.request.start.t = 4
    /\ surface.markup.kind = "controls"
    /\ surface.markup.start_end_mode = tok_end
    /\ surface.markup.int_frac_mode = tok_frac
    /\ surface.markup.request.start.t = 4

\* C17: whenever the handler has finished an action of the owner pressed on
\* the control keyboard, the message still carries a control keyboard.
C17_NeverCloses ==
    (cb.pc = "done" /\ cb.fault = "none" /\ cb.from_user = Pressed.user_id
        /\ cb.pressed \in keyboard(Pressed.int_frac_mode)) =>
        surface.markup.kind = "controls"

\* C18: the inline handler answers with the request of the first attempt
\* that gave one, whether or not another attempt raised a validation
\* error, and answers with no result only when no attempt gave a request.
C18_FirstAttemptUsed ==
    iq.pc = "answer" =>
        LET good == {i \in 1..3 : iq.attempts[i] = "request"}
        IN  /\ good # {} =>
                  /\ iq.results = "one"
                  /\ iq.used \in good
                  /\ \A i \in good : iq.used <= i
            /\ good = {} => iq.results = "empty"

\* C19: every callback payload of a control keyboard on the message is at
\* most PayloadCeiling bytes long (the payload is ASCII: one byte per
\* character).
C19_PayloadCeiling ==
    surface.markup.kind = "controls" =>
        \A d \in buttons(surface.markup) : Len(d) <= PayloadCeiling

\* C20: the handler of an edited message sends a new result message only
\* when no result sent for that originating message is still remembered
\* in last_messages, however message and edit events of the same key
\* interleave; two edits of a not-yet-known message handled side by side
\* do not each send a result.
C20_OneResultPerMessage ==
    [][\A h \in Slots :
          (/\ handlers[h].kind = "edit"
           /\ handlers[h].pc = "sending"
           /\ chat'[handlers[h].key].results > chat[handlers[h].key].results)
          => ~HasKey(cache_expire(last_messages, now), handlers[h].key)]_vars

====
